---- MODULE Spec2Model ----
(***************************************************************************)
(* B-Roll Scout: the service module (geminiService) that wraps the         *)
(* generative-AI backend.  The model follows one invocation of a top-level *)
(* operation from the call to the value or error the caller receives.      *)
(* Every action is one run-to-completion step of the JavaScript event      *)
(* loop: the arrival of one backend reply together with all the promise    *)
(* continuations that reply makes runnable.                                *)
(***************************************************************************)
EXTENDS Integers, Sequences, FiniteSets, TLC

(***************************************************************************)
(* Bounds of the model                                                     *)
(***************************************************************************)
\* longest list of grounding chunks a backend reply carries
MaxChunks == 2
\* most status checks that report "not done" in one video invocation
MaxPolls == 3
\* the requests the App starts in one session
MaxRequests == 5
\* the voiceover previews requested in one session
MaxPlays == 6
\* the preview requests one card starts
MaxPreviews == 3
\* the invocations of searchBrollResources of one session
NumCalls == 2

(***************************************************************************)
(* Values                                                                  *)
(***************************************************************************)
\* an optional value: absent (undefined) or present
Absent == <<>>

Some(v) == <<v>>

\* the string that stands for a missing (undefined) string property
Undefined == "undefined"

\* a query is its list of words
Queries == {<<"rainy", "neon", "alley">>, <<"chef", "macro">>}

NoQuery == <<>>

\* URIs that new URL() accepts, with their host names
GoodUris == {"https://www.pexels.com/video/1", "https://youtube.com/watch?v=2",
             "https://pixabay.com/videos/3", "https://mixkit.co/video/4",
             "https://www.pond5.com/clip/5", "https://vimeo.com/6"}

\* a URI string that new URL() rejects
BadUri == "not a url"

\* a title is its list of space-separated tokens
Titles == {<<"Rain", "|", "Pexels">>, <<"Chef", "-", "YouTube">>}

\* the texts a generateContent reply can carry: none, empty, or some text
Texts == {Undefined, "", "Found 2 clips."}

RECURSIVE SeqsUpTo(_, _)
\* all sequences over S of length at most n
SeqsUpTo(S, n) ==
    IF n = 0 THEN {<<>>}
    ELSE LET shorter == SeqsUpTo(S, n - 1)
         IN  shorter \cup {Append(s, x) : s \in {t \in shorter : Len(t) = n - 1}, x \in S}

\* GroundingChunk: a web record, a maps record, or neither
WebChunk(uri, title) == [kind |-> "web", uri |-> uri, title |-> title]

MapsChunk(uri, title) == [kind |-> "maps", uri |-> uri, title |-> title]

\* the grounding chunks the grounded-search backend may return
SearchChunks ==
    {WebChunk("https://www.pexels.com/video/1", t) : t \in Titles}
        \cup {WebChunk("https://youtube.com/watch?v=2", <<"Chef", "-", "YouTube">>),
              WebChunk(BadUri, <<"Rain", "|", "Pexels">>),
              WebChunk(Undefined, <<"Rain", "|", "Pexels">>),
              MapsChunk("https://www.google.com/maps/place/3", <<"Pier">>)}

\* four web chunks with four different URIs: as many as there are clips
FourChunks ==
    << WebChunk("https://pixabay.com/videos/3", <<"Rain", "|", "Pexels">>),
       WebChunk("https://mixkit.co/video/4", <<"Chef", "-", "YouTube">>),
       WebChunk("https://www.pond5.com/clip/5", <<"Rain", "|", "Pexels">>),
       WebChunk("https://vimeo.com/6", <<"Chef", "-", "YouTube">>) >>

\* the replies of a successful grounded-search call: the code reads the text
\* and the chunks independently of each other, so every text is tried with
\* one chunk list and every chunk list with one text; the lists are the
\* short ones and those that go on after four different sources
SearchResponses ==
    {[text |-> t, chunks |-> <<>>] : t \in Texts}
        \cup {[text |-> "Found 2 clips.", chunks |-> c] : c \in SeqsUpTo(SearchChunks, MaxChunks)}
        \cup {[text |-> "Found 2 clips.", chunks |-> FourChunks \o c] :
                 c \in SeqsUpTo(SearchChunks, MaxChunks - 1)}

\* before the reply has been read
NoResponse == [text |-> Undefined, chunks |-> <<>>]

\* the five structured fields of DeepAnalysisResult
StructuredFields == {"vibe", "techSpecs", "cameraSettings", "lightingDiagram", "audio"}

\* the objects a parsed analysis reply may be: the backend may omit fields
AnalysisPayloads ==
    {[f \in StructuredFields |-> v] : v \in {"A", "B"}}
        \cup {[f \in {"vibe", "techSpecs"} |-> "A"], [f \in {} |-> "A"]}

\* what getDeepAnalysis resolves to: undefined, or the parsed JSON value
AnalysisUndefined == [kind |-> "undefined", fields |-> <<>>]

AnalysisNull == [kind |-> "null", fields |-> <<>>]

AnalysisObject(p) == [kind |-> "object", fields |-> p]

\* the ways the analysis backend call can end: it raises, or it replies with
\* no or empty text, with text JSON.parse rejects, or with the text of value
AnalysisReplies ==
    {[how |-> h, value |-> AnalysisNull] : h \in {"raised", "empty", "unparsable"}}
        \cup {[how |-> "parsed", value |-> AnalysisNull]}
        \cup {[how |-> "parsed", value |-> AnalysisObject(p)] : p \in AnalysisPayloads}

\* generateBrollVariations issues one image call per prompt
NumVariations == 4

Variations == 1..NumVariations

\* the data URL generateBrollPreview returns for prompt k
ImageOf(k) == <<"data:image/png;base64", k>>

NoImage == <<>>

\* the ways an image backend call can end
ImageOutcomes == {"image", "noImage", "raised"}

(***************************************************************************)
(* State                                                                   *)
(***************************************************************************)
VARIABLES
    op,             \* the top-level operation invoked, "none" before the call
    pc,             \* where the invocation is
    query,          \* the query argument of the invocation
    returned,       \* Some(value) once the operation has returned
    raised,         \* Some(error) once the operation has thrown to its caller
    searchSt,       \* searchPromise: "none", "pending", "fulfilled", "rejected"
    searchResponse, \* the reply the continuation reads from searchPromise
    analysisSt,     \* analysisPromise: "none", "pending", "fulfilled"
    analysisHow,    \* how the analysis backend call ended, see AnalysisReplies
    analysisData,   \* the value of analysisPromise
    imageSt,        \* per prompt, the generateBrollPreview promise: "none", "pending",
                    \* "fulfilled", "rejected", or "ignored" once Promise.all has
                    \* rejected and no continuation waits for it any more
    thumbnailsSt,   \* thumbnailsPromise: "none", "pending", "fulfilled"
    thumbnails,     \* the value of thumbnailsPromise
    nextId,         \* number of identifiers crypto.randomUUID() has handed out
    calls,          \* the invocations of searchBrollResources of a session
    results,        \* what those invocations returned, latest first
    aistudio,       \* whether the host provides window.aistudio
    keySelected,    \* what hasSelectedApiKey() resolved to: "unknown", "yes", "no"
    submitted,      \* whether generateVideos has been called
    operation,      \* the video operation as last received from the backend
    waits,          \* number of 5 second waits begun by the poll loop
    checks,         \* number of getVideosOperation replies received
    notDone,        \* number of those replies that reported "not done"
    caught,         \* Some(error) once the catch block of generateBrollVideo runs
    prompts,        \* number of times openSelectKey has been called
    fetches,        \* number of media fetches issued
    jsonReply,      \* how the backend call of generateShotList or analyzeScript ended
    isLoading,      \* App: the isLoading state
    appError,       \* App: the error state, Absent for null
    sceneData,      \* App: the shots of the scene breakdown, Absent for null
    scriptData,     \* App: the segments of the script breakdown, Absent for null
    shown,          \* App: the number of entries of the results state
    inFlight,       \* App: per kind, the requests started and not yet settled
    started,        \* App: the number of requests started so far
    playingId,      \* ScriptAnalyzer: the playingId state, Absent for null
    loadingAudioId, \* ScriptAnalyzer: the loadingAudioId state, Absent for null
    voiceover,      \* ScriptAnalyzer: per segment, where its handlePlayAudio
                    \* invocation stands: "none", "speech", "decode", "playing"
    speechCalls,    \* ScriptAnalyzer: number of generateSpeech calls issued
    ended,          \* ScriptAnalyzer: number of playbacks that ran to their end
    failed,         \* ScriptAnalyzer: number of invocations that ended in the catch block
    cardMounted,    \* BrollCard: whether the card has been mounted
    currentLens,    \* BrollCard: the currentLens state
    previewUrl,     \* BrollCard: the previewUrl state, Absent for undefined
    isGeneratingImage, \* BrollCard: the isGeneratingImage state
    cardError,      \* BrollCard: the error state, Absent for null
    pendingPreviews,   \* BrollCard: per lens, the preview requests in flight
    previewsStarted,   \* BrollCard: number of preview requests started
    previewsFailed     \* BrollCard: number of preview requests that rejected

searchVars == <<query, searchSt, searchResponse, analysisSt, analysisHow, analysisData,
                imageSt, thumbnailsSt, thumbnails>>

videoVars == <<aistudio, keySelected, submitted, operation, waits, checks, notDone, caught, prompts,
               fetches>>

callVars == <<calls, results>>
serviceVars == <<op, pc, returned, raised, nextId, searchVars, videoVars, callVars, jsonReply>>

appVars == <<isLoading, appError, sceneData, scriptData, shown, inFlight, started>>

audioVars == <<playingId, loadingAudioId, voiceover, speechCalls, ended, failed>>

cardVars == <<cardMounted, currentLens, previewUrl, isGeneratingImage, cardError,
              pendingPreviews, previewsStarted, previewsFailed>>

uiVars == <<appVars, audioVars, cardVars>>

vars == <<serviceVars, uiVars>>

\* an Error object: its message, and whether the service module made it
DomainError(msg) == [domain |-> TRUE, message |-> msg]

InternalError(msg) == [domain |-> FALSE, message |-> msg]

SearchFailed == "Failed to search for B-roll resources. Please try again."

NotFoundText == "Requested entity was not found"

\* the errors an awaited backend or host call can reject with
BackendErrors == {InternalError("404 Requested entity was not found."),
                  InternalError("429 quota exceeded")}

\* message.includes(text)
Includes(message, text) ==
    text = NotFoundText /\ message = "404 Requested entity was not found."

\* a video operation object: its done flag and whether it carries
\* response.generatedVideos[0].video.uri
VideoOperations == {[done |-> FALSE, uri |-> FALSE], [done |-> TRUE, uri |-> TRUE],
                    [done |-> TRUE, uri |-> FALSE]}

NoOperation == [done |-> FALSE, uri |-> FALSE]

\* the invocations of searchBrollResources a session makes
Calls == 1..NumCalls

NoCall == [st |-> "none", query |-> NoQuery]

\* SearchMode, and the kinds of request the App starts
Modes == {"single", "scene", "script"}

Kinds == Modes \cup {"scout"}

\* the lens kit of the viewfinder
Lenses == {"16mm", "35mm", "50mm", "85mm"}

\* the ids of the segments ScriptAnalyzer displays
SegmentIds == {"segment-1", "segment-2"}

\* no backend call of generateShotList or analyzeScript has settled yet
NoReply == [ok |-> FALSE, text |-> "none", value |-> [isArray |-> FALSE, items |-> <<>>]]

Init ==
    /\ op = "none"
    /\ pc = "idle"
    /\ query = NoQuery
    /\ returned = Absent
    /\ raised = Absent
    /\ searchSt = "none"
    /\ searchResponse = NoResponse
    /\ analysisSt = "none"
    /\ analysisHow = "none"
    /\ analysisData = AnalysisUndefined
    /\ imageSt = [k \in Variations |-> "none"]
    /\ thumbnailsSt = "none"
    /\ thumbnails = <<>>
    /\ nextId = 0
    /\ calls = [i \in Calls |-> NoCall]
    /\ results = <<>>
    /\ jsonReply = NoReply
    /\ isLoading = FALSE
    /\ appError = Absent
    /\ sceneData = Absent
    /\ scriptData = Absent
    /\ shown = 0
    /\ inFlight = [k \in Kinds |-> 0]
    /\ started = 0
    /\ playingId = Absent
    /\ loadingAudioId = Absent
    /\ voiceover = [g \in SegmentIds |-> "none"]
    /\ speechCalls = 0
    /\ ended = 0
    /\ failed = 0
    /\ cardMounted = FALSE
    /\ currentLens = "50mm"
    /\ previewUrl = Absent
    /\ isGeneratingImage = FALSE
    /\ cardError = Absent
    /\ pendingPreviews = [l \in Lenses |-> 0]
    /\ previewsStarted = 0
    /\ previewsFailed = 0
    /\ aistudio = FALSE
    /\ keySelected = "unknown"
    /\ submitted = FALSE
    /\ operation = NoOperation
    /\ waits = 0
    /\ checks = 0
    /\ notDone = 0
    /\ caught = Absent
    /\ prompts = 0
    /\ fetches = 0

(***************************************************************************)
(* Result Merger: the continuation of searchBrollResources                 *)
(***************************************************************************)
NoSummary == "No summary available."

\* the text copied without the fallback
SummaryRaw(text) == text

\* searchResponse.text || "No summary available."
Summary(text) == IF text = Undefined \/ text = "" THEN NoSummary ELSE text

RECURSIVE Sources(_)
\* chunks.forEach: one source per chunk that has a web record
Sources(chunks) ==
    IF chunks = <<>> THEN <<>>
    ELSE LET c == Head(chunks)
         IN  (IF c.kind = "web" THEN <<[title |-> c.title, url |-> c.uri]>> ELSE <<>>)
                 \o Sources(Tail(chunks))

\* the index of the last entry with that url instead of the first
FindLastIndex(a, url) == CHOOSE i \in 1..Len(a) :
    /\ a[i].url = url
    /\ \A j \in (i + 1)..Len(a) : a[j].url # url

\* a.findIndex(t => t.url === url), for a url that occurs in a
FindIndex(a, url) == CHOOSE i \in 1..Len(a) :
    /\ a[i].url = url
    /\ \A j \in 1..(i - 1) : a[j].url # url

RECURSIVE KeepFirst(_, _)
\* the entries a[i..] that are the first of their url in a
KeepFirst(a, i) ==
    IF i > Len(a) THEN <<>>
    ELSE (IF FindIndex(a, a[i].url) = i THEN <<a[i]>> ELSE <<>>) \o KeepFirst(a, i + 1)

\* the filter left out: every source is kept
UniqueSourcesKeepAll(a) == a

\* sources.filter((v, i, a) => a.findIndex(t => t.url === v.url) === i)
UniqueSources(a) == KeepFirst(a, 1)

\* uniqueSources.slice(0, 4)
MaxClips == 4

\* the slice left out
SliceAll(a, n) == a

Slice(a, n) == SubSeq(a, 1, IF Len(a) < n THEN Len(a) ELSE n)

\* new URL(url) throws a TypeError unless url is an absolute URL
UrlParses(url) == url \in GoodUris

\* urlObj.hostname, as its list of labels
Hostname(url) ==
    CASE url = "https://www.pexels.com/video/1" -> <<"www", "pexels", "com">>
      [] url = "https://youtube.com/watch?v=2" -> <<"youtube", "com">>
      [] url = "https://pixabay.com/videos/3" -> <<"pixabay", "com">>
      [] url = "https://mixkit.co/video/4" -> <<"mixkit", "co">>
      [] url = "https://www.pond5.com/clip/5" -> <<"www", "pond5", "com">>
      [] url = "https://vimeo.com/6" -> <<"vimeo", "com">>

\* hostname.replace('www.', '')
StripWww(host) == IF Head(host) = "www" THEN Tail(host) ELSE host

\* the part of a title before the first token sep
CutAt(title, sep) ==
    IF \E i \in 1..Len(title) : title[i] = sep
    THEN SubSeq(title, 1, (CHOOSE i \in 1..Len(title) :
                              /\ title[i] = sep
                              /\ \A j \in 1..(i - 1) : title[j] # sep) - 1)
    ELSE title

\* title.replace(/ \| .*$/, '').replace(/ - .*$/, '')
CleanTitle(title) == CutAt(CutAt(title, "|"), "-")

\* every clip given the first image
ThumbnailFirst(thumbs, index) ==
    IF Len(thumbs) = 0 THEN NoImage ELSE thumbs[1]

\* thumbnails[index % thumbnails.length] || thumbnails[0], index counted from 0
Thumbnail(thumbs, index) ==
    IF Len(thumbs) = 0 THEN NoImage ELSE thumbs[(index % Len(thumbs)) + 1]

\* the clip made of the source at position index of uniqueSources.slice(0, 4)
FoundClip(source, index, thumbs, id) ==
    [id |-> id, title |-> CleanTitle(source.title), url |-> source.url,
     domain |-> StripWww(Hostname(source.url)), thumbnail |-> Thumbnail(thumbs, index)]

\* encodeURIComponent(query): the words joined by the escape of a space
RECURSIVE EncodeURIComponent(_)
EncodeURIComponent(q) ==
    IF Len(q) <= 1 THEN q ELSE <<Head(q), "%20">> \o EncodeURIComponent(Tail(q))

\* deep links listed with the paid platform first
DirectLinksPaidFirst(q) ==
    LET e == EncodeURIComponent(q)
    IN  << [platform |-> "Pond5", type |-> "paid",
            url |-> <<"https://www.pond5.com/stock-footage/">> \o e],
           [platform |-> "Pexels", type |-> "free",
            url |-> <<"https://www.pexels.com/search/videos/">> \o e \o <<"/">>],
           [platform |-> "Pixabay", type |-> "free",
            url |-> <<"https://pixabay.com/videos/search/">> \o e \o <<"/">>],
           [platform |-> "YouTube", type |-> "social",
            url |-> <<"https://www.youtube.com/results?search_query=">> \o e
                        \o <<"+cinematic+b-roll">>] >>

\* the quick-search deep links of a query
DirectLinks(q) ==
    LET e == EncodeURIComponent(q)
    IN  << [platform |-> "Pexels", type |-> "free",
            url |-> <<"https://www.pexels.com/search/videos/">> \o e \o <<"/">>],
           [platform |-> "Pixabay", type |-> "free",
            url |-> <<"https://pixabay.com/videos/search/">> \o e \o <<"/">>],
           [platform |-> "YouTube", type |-> "social",
            url |-> <<"https://www.youtube.com/results?search_query=">> \o e
                        \o <<"+cinematic+b-roll">>],
           [platform |-> "Pond5", type |-> "paid",
            url |-> <<"https://www.pond5.com/stock-footage/">> \o e] >>

\* a field read that falls back to a default text when the payload lacks it
FieldOrDefault(data, f) ==
    IF data.kind = "object" /\ f \in DOMAIN data.fields
    THEN Some(data.fields[f]) ELSE Some("A")

\* analysisData?.field
Field(data, f) ==
    IF data.kind = "object" /\ f \in DOMAIN data.fields THEN Some(data.fields[f]) ELSE Absent

\* the sources the foundClips are made of
ClipSources(sr) == Slice(UniqueSources(Sources(sr.chunks)), MaxClips)

\* positions of the clip sources on which new URL(source.url) throws
Unparseable(sr) ==
    {i \in 1..Len(ClipSources(sr)) : ~UrlParses(ClipSources(sr)[i].url)}

\* the object searchBrollResources returns; ids are drawn after id0
\* the object literal of the return statement, with "id" as its identifier
Result(q, sr, data, thumbs, id0, id) ==
    LET unique == UniqueSources(Sources(sr.chunks))
        clipSources == ClipSources(sr)
        foundClips == [i \in 1..Len(clipSources) |->
                          FoundClip(clipSources[i], i - 1, thumbs, id0 + i)]
    IN  [id |-> id,
         query |-> q,
         summary |-> Summary(sr.text),
         sources |-> unique,
         foundClips |-> IF Len(foundClips) > 0 THEN Some(foundClips) ELSE Absent,
         directLinks |-> DirectLinks(q),
         vibe |-> Field(data, "vibe"),
         techSpecs |-> Field(data, "techSpecs"),
         cameraSettings |-> Field(data, "cameraSettings"),
         lightingDiagram |-> Field(data, "lightingDiagram"),
         audio |-> Field(data, "audio"),
         generatedPreviewUrl |-> IF Len(thumbs) = 0 THEN NoImage ELSE thumbs[1]]

\* a result identified by a value of the backend's reply, the number of its
\* grounding chunks
AggregateBackendId(q, sr, data, thumbs, id0) ==
    Result(q, sr, data, thumbs, id0, Len(sr.chunks))

\* the result of searchBrollResources; the clips take their identifiers from
\* crypto.randomUUID() first, the result takes the next one
Aggregate(q, sr, data, thumbs, id0) ==
    Result(q, sr, data, thumbs, id0, id0 + Len(ClipSources(sr)) + 1)

(***************************************************************************)
(* searchBrollResources: fan-out and join                                  *)
(***************************************************************************)
\* the first position at which new URL() throws, given that there is one
FirstUnparseable(sr) ==
    CHOOSE i \in Unparseable(sr) : \A j \in Unparseable(sr) : i <= j

\* Promise.all([...]) rejects as soon as one of its members has rejected
AnyRejected(sSt, aSt, tSt) == "rejected" \in {sSt, aSt, tSt}

\* a join that waits for the grounded search only
AllFulfilledSearchOnly(sSt, aSt, tSt) == sSt = "fulfilled"

\* Promise.all([...]) fulfils once every member has fulfilled
AllFulfilled(sSt, aSt, tSt) == sSt = "fulfilled" /\ aSt = "fulfilled" /\ tSt = "fulfilled"

\* a catch block that rethrows what it caught
SearchCatchRethrow(e) ==
    /\ pc' = "raised"
    /\ raised' = Some(e)

\* the catch block of searchBrollResources, entered with error e
SearchCatch(e) ==
    /\ pc' = "raised"
    /\ raised' = Some(DomainError(SearchFailed))

\* The code after "await Promise.all([...])", run with the promise states sSt,
\* aSt, tSt the current step leaves behind.  The reply of the grounded search
\* is read here and nowhere earlier.
SearchContinuation(sSt, aSt, data, tSt, thumbs) ==
    IF pc # "awaiting"
    THEN UNCHANGED <<pc, returned, raised, searchResponse, nextId>>
    ELSE IF AnyRejected(sSt, aSt, tSt)
    THEN /\ \E e \in BackendErrors : SearchCatch(e)
         /\ UNCHANGED <<returned, searchResponse, nextId>>
    ELSE IF AllFulfilled(sSt, aSt, tSt)
    THEN \E sr \in SearchResponses :
            /\ searchResponse' = sr
            /\ IF Unparseable(sr) # {}
               THEN /\ SearchCatch(InternalError("TypeError: Invalid URL"))
                    /\ nextId' = nextId + FirstUnparseable(sr) - 1
                    /\ UNCHANGED returned
               ELSE /\ pc' = "returned"
                    /\ returned' = Some(Aggregate(query, sr, data, thumbs, nextId))
                    /\ nextId' = nextId + Len(ClipSources(sr)) + 1
                    /\ UNCHANGED raised
    ELSE UNCHANGED <<pc, returned, raised, searchResponse, nextId>>

\* the caller invokes searchBrollResources(q): the three sub-calls are issued
CallSearch(q) ==
    /\ pc = "idle"
    /\ op' = "search"
    /\ pc' = "awaiting"
    /\ query' = q
    /\ searchSt' = "pending"
    /\ analysisSt' = "pending"
    /\ thumbnailsSt' = "pending"
    /\ imageSt' = [k \in Variations |-> "pending"]
    /\ UNCHANGED <<returned, raised, searchResponse, analysisHow, analysisData,
                   thumbnails, nextId, videoVars>>
    /\ UNCHANGED jsonReply
    /\ UNCHANGED uiVars
    /\ UNCHANGED callVars

\* the grounded-search call settles
SettleSearch(ok) ==
    /\ op = "search"
    /\ searchSt = "pending"
    /\ searchSt' = IF ok THEN "fulfilled" ELSE "rejected"
    /\ SearchContinuation(searchSt', analysisSt, analysisData, thumbnailsSt, thumbnails)
    /\ UNCHANGED <<op, query, analysisSt, analysisHow, analysisData, imageSt,
                   thumbnailsSt, thumbnails, videoVars>>
    /\ UNCHANGED jsonReply
    /\ UNCHANGED uiVars
    /\ UNCHANGED callVars

\* a catch block that resolves to a default object instead of undefined
GetDeepAnalysisDefault(r) ==
    IF r.how = "parsed" THEN r.value
    ELSE AnalysisObject([f \in {"vibe"} |-> "A"])

\* getDeepAnalysis: what it resolves to when its backend call ends as reply r;
\* the catch block returns undefined, so the promise never rejects
GetDeepAnalysis(r) == IF r.how = "parsed" THEN r.value ELSE AnalysisUndefined

\* the backend call of getDeepAnalysis settles
SettleAnalysis(r) ==
    /\ op = "search"
    /\ analysisSt = "pending"
    /\ analysisSt' = "fulfilled"
    /\ analysisHow' = r.how
    /\ analysisData' = GetDeepAnalysis(r)
    /\ SearchContinuation(searchSt, analysisSt', analysisData', thumbnailsSt, thumbnails)
    /\ UNCHANGED <<op, query, searchSt, imageSt, thumbnailsSt, thumbnails, videoVars>>
    /\ UNCHANGED jsonReply
    /\ UNCHANGED uiVars
    /\ UNCHANGED callVars

\* generateBrollPreview: rejects unless the reply carries an image part
PreviewSettles(outcome) == IF outcome = "image" THEN "fulfilled" ELSE "rejected"

\* generateBrollVariations without its catch block: the rejection propagates
VariationsAfterNoCatch(k, st) ==
    LET settled == [imageSt EXCEPT ![k] = st]
    IN  IF st = "rejected"
        THEN [images |-> [j \in Variations |->
                             IF settled[j] = "pending" THEN "ignored" ELSE settled[j]],
              st |-> "rejected", value |-> <<>>]
        ELSE IF \A j \in Variations : settled[j] = "fulfilled"
        THEN [images |-> settled, st |-> "fulfilled",
              value |-> [j \in Variations |-> ImageOf(j)]]
        ELSE [images |-> settled, st |-> "pending", value |-> <<>>]

\* a join that waits for all four calls and keeps the images of those that
\* fulfilled
VariationsAfterKeepsFulfilled(k, st) ==
    LET settled == [imageSt EXCEPT ![k] = st]
        done == \A j \in Variations : settled[j] \in {"fulfilled", "rejected"}
        kept == SelectSeq([j \in Variations |-> j], LAMBDA j : settled[j] = "fulfilled")
    IN  [images |-> settled,
         st |-> IF done THEN "fulfilled" ELSE "pending",
         value |-> IF done THEN [i \in 1..Len(kept) |-> ImageOf(kept[i])] ELSE <<>>]

\* generateBrollVariations after image call k has settled as st: the first
\* rejection makes Promise.all reject and the catch block return []
VariationsAfter(k, st) ==
    LET settled == [imageSt EXCEPT ![k] = st]
    IN  IF st = "rejected"
        THEN [images |-> [j \in Variations |->
                             IF settled[j] = "pending" THEN "ignored" ELSE settled[j]],
              st |-> "fulfilled", value |-> <<>>]
        ELSE IF \A j \in Variations : settled[j] = "fulfilled"
        THEN [images |-> settled, st |-> "fulfilled",
              value |-> [j \in Variations |-> ImageOf(j)]]
        ELSE [images |-> settled, st |-> "pending", value |-> <<>>]

\* the image call for prompt k settles
SettleImage(k, outcome) ==
    /\ op = "search"
    /\ imageSt[k] = "pending"
    /\ LET after == VariationsAfter(k, PreviewSettles(outcome))
       IN  /\ imageSt' = after.images
           /\ thumbnailsSt' = after.st
           /\ thumbnails' = after.value
    /\ SearchContinuation(searchSt, analysisSt, analysisData, thumbnailsSt', thumbnails')
    /\ UNCHANGED <<op, query, searchSt, analysisSt, analysisHow, analysisData, videoVars>>
    /\ UNCHANGED jsonReply
    /\ UNCHANGED uiVars
    /\ UNCHANGED callVars

(***************************************************************************)
(* generateBrollVideo: key check, submission, poll loop, media fetch       *)
(***************************************************************************)
VideoFailed == "Failed to generate motion preview."

SelectBilling == "Please select a billing project and try again."

\* the local reference URL.createObjectURL makes of the fetched blob
ObjectUrl == "blob:object-url"

\* the media locator the finished operation carries
VideoUri == "https://generativelanguage.googleapis.com/video?alt=media"

\* a catch block without the key-selection branch
VideoCatchGeneric(e) ==
    /\ caught' = Some(e)
    /\ pc' = "raised"
    /\ raised' = Some(DomainError(VideoFailed))
    /\ UNCHANGED prompts

\* the catch block, entered with error e
VideoCatch(e) ==
    /\ caught' = Some(e)
    /\ IF Includes(e.message, NotFoundText) /\ aistudio
       THEN /\ prompts' = prompts + 1
            /\ pc' = "catchSelectKey"
            /\ UNCHANGED raised
       ELSE /\ pc' = "raised"
            /\ raised' = Some(DomainError(VideoFailed))
            /\ UNCHANGED prompts

\* new GoogleGenAI(...) and the call of generateVideos
VideoSubmit ==
    /\ submitted' = TRUE
    /\ pc' = "submit"

\* the media fetch issued without looking at the locator
VideoExtractFetchesAnyway(o) ==
    /\ fetches' = fetches + 1
    /\ pc' = "fetch"
    /\ UNCHANGED <<caught, prompts, raised>>

\* the code after the poll loop, with the operation o that reported done
VideoExtract(o) ==
    IF o.uri
    THEN /\ fetches' = fetches + 1
         /\ pc' = "fetch"
         /\ UNCHANGED <<caught, prompts, raised>>
    ELSE /\ VideoCatch(InternalError("No video URI returned from Veo."))
         /\ UNCHANGED fetches

\* a poll loop that gives up after two waits
VideoLoopCapped(o) ==
    IF o.done
    THEN /\ VideoExtract(o)
         /\ UNCHANGED waits
    ELSE IF waits >= 2
    THEN /\ VideoCatch(InternalError("Timed out waiting for the video."))
         /\ UNCHANGED <<waits, fetches>>
    ELSE /\ waits' = waits + 1
         /\ pc' = "wait"
         /\ UNCHANGED <<caught, prompts, raised, fetches>>

\* the loop condition inverted: "while (operation.done)"
VideoLoopInverted(o) ==
    IF ~o.done
    THEN /\ VideoExtract(o)
         /\ UNCHANGED waits
    ELSE /\ waits' = waits + 1
         /\ pc' = "wait"
         /\ UNCHANGED <<caught, prompts, raised, fetches>>

\* "while (!operation.done)" evaluated on the operation o just received
VideoLoop(o) ==
    IF o.done
    THEN /\ VideoExtract(o)
         /\ UNCHANGED waits
    ELSE /\ waits' = waits + 1
         /\ pc' = "wait"
         /\ UNCHANGED <<caught, prompts, raised, fetches>>

\* the caller invokes generateBrollVideo; present: window.aistudio exists
CallVideo(present) ==
    /\ pc = "idle"
    /\ op' = "video"
    /\ aistudio' = present
    /\ IF present
       THEN /\ pc' = "hasKey"
            /\ UNCHANGED submitted
       ELSE VideoSubmit
    /\ UNCHANGED <<returned, raised, nextId, searchVars, operation, waits, checks, notDone,
                   caught, prompts, fetches>>
    /\ UNCHANGED keySelected
    /\ UNCHANGED jsonReply
    /\ UNCHANGED uiVars
    /\ UNCHANGED callVars

\* a key check whose answer is not looked at: the job is submitted either way
HasKeyReplyNoPrompt(selected) ==
    /\ op = "video" /\ pc = "hasKey"
    /\ VideoSubmit
    /\ keySelected' = IF selected THEN "yes" ELSE "no"
    /\ UNCHANGED <<op, returned, raised, nextId, searchVars, aistudio, operation, waits, checks,
                   notDone, caught, prompts, fetches>>
    /\ UNCHANGED jsonReply
    /\ UNCHANGED uiVars
    /\ UNCHANGED callVars

\* hasSelectedApiKey() settles
HasKeyReply(selected) ==
    /\ op = "video" /\ pc = "hasKey"
    /\ IF selected
       THEN /\ VideoSubmit
            /\ UNCHANGED prompts
       ELSE /\ prompts' = prompts + 1
            /\ pc' = "selectKey"
            /\ UNCHANGED submitted
    /\ UNCHANGED <<op, returned, raised, nextId, searchVars, aistudio, operation, waits, checks,
                   notDone, caught, fetches>>
    /\ keySelected' = IF selected THEN "yes" ELSE "no"
    /\ UNCHANGED jsonReply
    /\ UNCHANGED uiVars
    /\ UNCHANGED callVars

\* openSelectKey() of the key check settles
SelectKeyReply ==
    /\ op = "video" /\ pc = "selectKey"
    /\ VideoSubmit
    /\ UNCHANGED <<op, returned, raised, nextId, searchVars, aistudio, operation, waits, checks,
                   notDone, caught, prompts, fetches>>
    /\ UNCHANGED keySelected
    /\ UNCHANGED jsonReply
    /\ UNCHANGED uiVars
    /\ UNCHANGED callVars

\* generateVideos settles with operation o
SubmitReply(o) ==
    /\ op = "video" /\ pc = "submit"
    /\ operation' = o
    /\ VideoLoop(o)
    /\ UNCHANGED <<op, returned, nextId, searchVars, aistudio, submitted, checks, notDone>>
    /\ UNCHANGED keySelected
    /\ UNCHANGED jsonReply
    /\ UNCHANGED uiVars
    /\ UNCHANGED callVars

\* the 5 second timer fires and getVideosOperation is called
WaitElapsed ==
    /\ op = "video" /\ pc = "wait"
    /\ pc' = "check"
    /\ UNCHANGED <<op, returned, raised, nextId, searchVars, videoVars>>
    /\ UNCHANGED jsonReply
    /\ UNCHANGED uiVars
    /\ UNCHANGED callVars

\* getVideosOperation settles with operation o
CheckReply(o) ==
    /\ op = "video" /\ pc = "check"
    /\ o.done \/ notDone < MaxPolls
    /\ checks' = checks + 1
    /\ notDone' = IF o.done THEN notDone ELSE notDone + 1
    /\ operation' = o
    /\ VideoLoop(o)
    /\ UNCHANGED <<op, returned, nextId, searchVars, aistudio, submitted>>
    /\ UNCHANGED keySelected
    /\ UNCHANGED jsonReply
    /\ UNCHANGED uiVars
    /\ UNCHANGED callVars

\* the locator handed back as soon as the fetch has settled
FetchReplyReturnsLocator ==
    /\ op = "video" /\ pc = "fetch"
    /\ pc' = "returned"
    /\ returned' = Some(VideoUri)
    /\ UNCHANGED <<op, raised, nextId, searchVars, videoVars>>
    /\ UNCHANGED jsonReply
    /\ UNCHANGED uiVars
    /\ UNCHANGED callVars

\* fetch(videoUri + key) settles and blob() is called
FetchReply ==
    /\ op = "video" /\ pc = "fetch"
    /\ pc' = "blob"
    /\ UNCHANGED <<op, returned, raised, nextId, searchVars, videoVars>>
    /\ UNCHANGED jsonReply
    /\ UNCHANGED uiVars
    /\ UNCHANGED callVars

\* videoRes.blob() settles; URL.createObjectURL(blob) is returned
BlobReply ==
    /\ op = "video" /\ pc = "blob"
    /\ pc' = "returned"
    /\ returned' = Some(ObjectUrl)
    /\ UNCHANGED <<op, raised, nextId, searchVars, videoVars>>
    /\ UNCHANGED jsonReply
    /\ UNCHANGED uiVars
    /\ UNCHANGED callVars

\* a status check that is tried again when it rejects
VideoAwaitRejectsRetry(e) ==
    /\ op = "video"
    /\ pc \in {"hasKey", "selectKey", "submit", "check", "fetch", "blob"}
    /\ checks' = IF pc = "check" THEN checks + 1 ELSE checks
    /\ IF pc = "check" /\ checks < MaxPolls
       THEN /\ pc' = "wait"
            /\ waits' = waits + 1
            /\ UNCHANGED <<caught, prompts, raised>>
       ELSE /\ VideoCatch(e)
            /\ UNCHANGED waits
    /\ UNCHANGED <<op, returned, nextId, searchVars, aistudio, submitted, operation,
                   notDone, fetches>>
    /\ UNCHANGED keySelected
    /\ UNCHANGED jsonReply
    /\ UNCHANGED uiVars
    /\ UNCHANGED callVars

\* an awaited call inside the try block rejects with e
VideoAwaitRejects(e) ==
    /\ op = "video"
    /\ pc \in {"hasKey", "selectKey", "submit", "check", "fetch", "blob"}
    /\ checks' = IF pc = "check" THEN checks + 1 ELSE checks
    /\ VideoCatch(e)
    /\ UNCHANGED <<op, returned, nextId, searchVars, aistudio, submitted, operation, waits,
                   notDone, fetches>>
    /\ UNCHANGED keySelected
    /\ UNCHANGED jsonReply
    /\ UNCHANGED uiVars
    /\ UNCHANGED callVars

\* openSelectKey() of the catch block settles; e is Absent or the rejection
CatchSelectKeyReply(e) ==
    /\ op = "video" /\ pc = "catchSelectKey"
    /\ pc' = "raised"
    /\ raised' = IF e = Absent THEN Some(DomainError(SelectBilling)) ELSE e
    /\ UNCHANGED <<op, returned, nextId, searchVars, videoVars>>
    /\ UNCHANGED jsonReply
    /\ UNCHANGED uiVars
    /\ UNCHANGED callVars

(***************************************************************************)
(* generateShotList, analyzeScript, scoutLocations: one backend call each  *)
(***************************************************************************)
ShotListFailed == "Could not generate shot list."

ScriptFailed == "Could not analyze script."

ScoutFailed == "Could not find locations."

\* the JSON values a schema-constrained reply can parse to: an array of
\* items, or a value that is not an array
JsonValues ==
    {[isArray |-> TRUE, items |-> i] : i \in SeqsUpTo({"beat one", "beat two"}, MaxChunks)}
        \cup {[isArray |-> FALSE, items |-> <<>>]}

\* response.text of a schema-constrained reply: missing, empty, text that
\* JSON.parse rejects, or the text of a JSON value
JsonReplies ==
    {[text |-> t, value |-> [isArray |-> FALSE, items |-> <<>>]] :
        t \in {"missing", "empty", "garbage"}}
        \cup {[text |-> "json", value |-> v] : v \in JsonValues}

\* the caller invokes one of the single-call operations
CallSimple(o) ==
    /\ pc = "idle"
    /\ op' = o
    /\ pc' = "awaiting"
    /\ UNCHANGED <<returned, raised, nextId, searchVars, videoVars>>
    /\ UNCHANGED jsonReply
    /\ UNCHANGED uiVars
    /\ UNCHANGED callVars

\* the operation returns v / throws the domain error msg
SimpleReturns(v) ==
    /\ pc' = "returned"
    /\ returned' = Some(v)
    /\ UNCHANGED <<op, raised, searchVars, videoVars>>

SimpleThrows(msg) ==
    /\ pc' = "raised"
    /\ raised' = Some(DomainError(msg))
    /\ UNCHANGED <<op, returned, searchVars, videoVars>>

\* generateShotList: the backend call settles; ok is whether it fulfilled
ShotListReply(ok, r) ==
    /\ op = "shotList" /\ pc = "awaiting"
    /\ IF ~ok \/ r.text = "garbage" THEN SimpleThrows(ShotListFailed)
       ELSE IF r.text = "json" THEN SimpleReturns(r.value)
       ELSE SimpleReturns([isArray |-> TRUE, items |-> <<>>])
    /\ UNCHANGED nextId
    /\ jsonReply' = [ok |-> ok, text |-> r.text, value |-> r.value]
    /\ UNCHANGED uiVars
    /\ UNCHANGED callVars

\* raw.map(item => ({...item, id: crypto.randomUUID()}))
Segments(items, id0) == [i \in 1..Len(items) |-> [item |-> items[i], id |-> id0 + i]]

\* analyzeScript: the backend call settles; raw.map throws unless raw is an array
ScriptReply(ok, r) ==
    /\ op = "script" /\ pc = "awaiting"
    /\ IF ~ok \/ r.text = "garbage" \/ (r.text = "json" /\ ~r.value.isArray)
       THEN SimpleThrows(ScriptFailed)
       ELSE IF r.text = "json" THEN SimpleReturns(Segments(r.value.items, nextId))
       ELSE SimpleReturns(<<>>)
    /\ nextId' = IF ok /\ r.text = "json" /\ r.value.isArray
                 THEN nextId + Len(r.value.items) ELSE nextId
    /\ jsonReply' = [ok |-> ok, text |-> r.text, value |-> r.value]
    /\ UNCHANGED uiVars
    /\ UNCHANGED callVars

\* the grounding chunks the maps-grounded backend may return
MapUris == {"https://www.google.com/maps/place/3", "https://maps.google.com/?cid=4"}

ScoutChunks ==
    {MapsChunk(u, <<"Pier">>) : u \in MapUris}
        \cup {WebChunk("https://www.google.com/maps/place/3", <<"Pier", "-", "Maps">>),
              WebChunk("https://www.pexels.com/video/1", <<"Rain", "|", "Pexels">>),
              WebChunk(Undefined, <<"Rain", "|", "Pexels">>)}

\* chunk.web.uri.includes('google.com/maps')
IncludesMaps(uri) == uri = "https://www.google.com/maps/place/3"

\* the fixed record calculateSunData returns
SunData == [sunrise |-> "06:15 AM", sunset |-> "07:30 PM"]

RECURSIVE Locations(_)
\* chunks.forEach of scoutLocations, for chunks whose web records have a uri
Locations(chunks) ==
    IF chunks = <<>> THEN <<>>
    ELSE LET c == Head(chunks)
         IN  (IF (c.kind = "web" /\ IncludesMaps(c.uri)) \/ c.kind = "maps"
              THEN <<[title |-> c.title, url |-> c.uri, sunData |-> SunData]>>
              ELSE <<>>) \o Locations(Tail(chunks))

\* scoutLocations: the backend call settles; reading uri.includes of a web
\* record without uri throws a TypeError
ScoutReply(ok, chunks) ==
    /\ op = "scout" /\ pc = "awaiting"
    /\ IF ~ok \/ \E i \in 1..Len(chunks) : chunks[i].kind = "web" /\ chunks[i].uri = Undefined
       THEN SimpleThrows(ScoutFailed)
       ELSE SimpleReturns(KeepFirst(Locations(chunks), 1))
    /\ UNCHANGED nextId
    /\ UNCHANGED jsonReply
    /\ UNCHANGED uiVars
    /\ UNCHANGED callVars

(***************************************************************************)
(* Several invocations of searchBrollResources in one session.  They share *)
(* crypto.randomUUID(); each is followed from its call to the step in      *)
(* which the last of its sub-calls settles and its continuation runs.      *)
(***************************************************************************)
\* the replies of the grounded search the invocations of a session receive
CallResponses ==
    {sr \in SearchResponses :
        /\ sr.text = "Found 2 clips."
        /\ Len(sr.chunks) \in {0, 1, MaxClips}}

\* what the analysis and the thumbnails of such an invocation deliver: both
\* degraded, or both in full
CallExtras ==
    {<<AnalysisUndefined, <<>>>>,
     <<AnalysisObject([f \in StructuredFields |-> "A"]), [k \in Variations |-> ImageOf(k)]>>}

\* searchBrollResources(q) is called while other invocations may be pending
CallSearchAgain(i, q) ==
    /\ pc = "idle"
    /\ calls[i].st = "none"
    /\ \A j \in Calls : j < i => calls[j].st # "none"
    /\ calls' = [calls EXCEPT ![i] = [st |-> "awaiting", query |-> q]]
    /\ UNCHANGED <<op, pc, returned, raised, nextId, searchVars, videoVars, results>>
    /\ UNCHANGED jsonReply
    /\ UNCHANGED uiVars

\* a sub-call of invocation i rejects: Promise.all rejects, the catch block
\* raises the domain error
CallRejected(i) ==
    /\ pc = "idle"
    /\ calls[i].st = "awaiting"
    /\ calls' = [calls EXCEPT ![i].st = "raised"]
    /\ UNCHANGED <<op, pc, returned, raised, nextId, searchVars, videoVars, results>>
    /\ UNCHANGED jsonReply
    /\ UNCHANGED uiVars

\* the last sub-call of invocation i fulfils and its continuation runs with
\* the search reply sr, the analysis data and the thumbnails
CallSettled(i, sr, data, thumbs) ==
    /\ pc = "idle"
    /\ calls[i].st = "awaiting"
    /\ IF Unparseable(sr) # {}
       THEN /\ calls' = [calls EXCEPT ![i].st = "raised"]
            /\ nextId' = nextId + FirstUnparseable(sr) - 1
            /\ UNCHANGED results
       ELSE /\ calls' = [calls EXCEPT ![i].st = "returned"]
            /\ results' = <<Aggregate(calls[i].query, sr, data, thumbs, nextId)>> \o results
            /\ nextId' = nextId + Len(ClipSources(sr)) + 1
    /\ UNCHANGED <<op, pc, returned, raised, searchVars, videoVars>>
    /\ UNCHANGED jsonReply
    /\ UNCHANGED uiVars

NextCalls ==
    \/ \E i \in Calls, q \in Queries : CallSearchAgain(i, q)
    \/ \E i \in Calls : CallRejected(i)
    \/ \E i \in Calls, sr \in CallResponses, x \in CallExtras :
            CallSettled(i, sr, x[1], x[2])

SpecCalls == Init /\ [][NextCalls]_vars

(***************************************************************************)
(* The App component: handleSearch and handleScoutShot, each followed from *)
(* its synchronous start to the settling of the service call it awaits.    *)
(***************************************************************************)
SearchError == "We couldn't complete the request. Please check your API key or try again."

ScoutError == "Failed to scout this shot."

\* the lists generateShotList and analyzeScript resolve to: empty or not
Breakdowns == {<<>>, <<"beat one", "beat two">>}

\* a clickable shot or segment is on screen
ScoutButtonShown ==
    \/ sceneData # Absent /\ Len(sceneData[1]) > 0
    \/ scriptData # Absent /\ Len(scriptData[1]) > 0

\* handleSearch up to its await; the submit button is disabled while isLoading
HandleSearch(mode) ==
    /\ ~isLoading
    /\ started < MaxRequests
    /\ isLoading' = TRUE
    /\ appError' = Absent
    /\ sceneData' = Absent
    /\ scriptData' = Absent
    /\ inFlight' = [inFlight EXCEPT ![mode] = @ + 1]
    /\ started' = started + 1
    /\ UNCHANGED <<shown, serviceVars>>
    /\ UNCHANGED <<audioVars, cardVars>>

\* handleScoutShot up to its await, called from a shot or a segment on screen
HandleScoutShot ==
    /\ ScoutButtonShown
    /\ started < MaxRequests
    /\ isLoading' = TRUE
    /\ appError' = Absent
    /\ inFlight' = [inFlight EXCEPT !["scout"] = @ + 1]
    /\ started' = started + 1
    /\ UNCHANGED <<sceneData, scriptData, shown, serviceVars>>
    /\ UNCHANGED <<audioVars, cardVars>>

\* the service call of a request of kind k fulfils: the rest of the try block
\* and the finally block
RequestReturns(k, list) ==
    /\ inFlight[k] > 0
    /\ inFlight' = [inFlight EXCEPT ![k] = @ - 1]
    /\ sceneData' = IF k = "scene" THEN Some(list) ELSE sceneData
    /\ scriptData' = IF k = "script" THEN Some(list) ELSE scriptData
    /\ shown' = IF k \in {"scene", "script"} THEN 0 ELSE shown + 1
    /\ isLoading' = FALSE
    /\ UNCHANGED <<appError, started, serviceVars>>
    /\ UNCHANGED <<audioVars, cardVars>>

\* the service call of a request of kind k rejects: the catch block and the
\* finally block
RequestRaises(k) ==
    /\ inFlight[k] > 0
    /\ inFlight' = [inFlight EXCEPT ![k] = @ - 1]
    /\ appError' = Some(IF k = "scout" THEN ScoutError ELSE SearchError)
    /\ isLoading' = FALSE
    /\ UNCHANGED <<sceneData, scriptData, shown, started, serviceVars>>
    /\ UNCHANGED <<audioVars, cardVars>>

NextApp ==
    \/ \E mode \in Modes : HandleSearch(mode)
    \/ HandleScoutShot
    \/ \E k \in Kinds, list \in Breakdowns : RequestReturns(k, list)
    \/ \E k \in Kinds : RequestRaises(k)

SpecApp == Init /\ [][NextApp]_vars

(***************************************************************************)
(* The ScriptAnalyzer component: handlePlayAudio, from the click to the    *)
(* end of the playback.                                                    *)
(***************************************************************************)
\* a click handler that relies on its own test of playingId only
HandlePlayAudioOwnGuardOnly(g) ==
    /\ playingId = Absent
    /\ speechCalls < MaxPlays
    /\ voiceover[g] = "none"
    /\ loadingAudioId' = Some(g)
    /\ voiceover' = [voiceover EXCEPT ![g] = "speech"]
    /\ speechCalls' = speechCalls + 1
    /\ UNCHANGED <<playingId, ended, failed, serviceVars, appVars, cardVars>>

\* the "Preview Voiceover" button of segment g is clicked: it is disabled
\* while loadingAudioId or playingId is set; handlePlayAudio runs up to the
\* await of generateSpeech
HandlePlayAudio(g) ==
    /\ loadingAudioId = Absent /\ playingId = Absent
    /\ playingId = Absent
    /\ speechCalls < MaxPlays
    /\ loadingAudioId' = Some(g)
    /\ voiceover' = [voiceover EXCEPT ![g] = "speech"]
    /\ speechCalls' = speechCalls + 1
    /\ UNCHANGED <<playingId, ended, failed, serviceVars, appVars, cardVars>>

\* the catch block of handlePlayAudio
AudioCatch(g) ==
    /\ loadingAudioId' = Absent
    /\ playingId' = Absent
    /\ voiceover' = [voiceover EXCEPT ![g] = "none"]
    /\ failed' = failed + 1

\* generateSpeech settles; when it fulfils the AudioContext is made and
\* decodeAudioData is called, and either of the two may throw
SpeechReply(g, ok) ==
    /\ voiceover[g] = "speech"
    /\ IF ok
       THEN /\ voiceover' = [voiceover EXCEPT ![g] = "decode"]
            /\ UNCHANGED <<loadingAudioId, playingId, failed>>
       ELSE AudioCatch(g)
    /\ UNCHANGED <<speechCalls, ended, serviceVars, appVars, cardVars>>

\* decodeAudioData settles; when it fulfils the source is wired up, the two
\* states are set and source.start(0) is called, which may throw
DecodeReply(g, ok) ==
    /\ voiceover[g] = "decode"
    /\ IF ok
       THEN /\ loadingAudioId' = Absent
            /\ playingId' = Some(g)
            /\ voiceover' = [voiceover EXCEPT ![g] = "playing"]
            /\ UNCHANGED failed
       ELSE AudioCatch(g)
    /\ UNCHANGED <<speechCalls, ended, serviceVars, appVars, cardVars>>

\* source.onended fires for the playback of segment g
PlaybackEnded(g) ==
    /\ voiceover[g] = "playing"
    /\ playingId' = Absent
    /\ voiceover' = [voiceover EXCEPT ![g] = "none"]
    /\ ended' = ended + 1
    /\ UNCHANGED <<loadingAudioId, speechCalls, failed, serviceVars, appVars, cardVars>>

NextAudio ==
    \/ \E g \in SegmentIds : HandlePlayAudio(g)
    \/ \E g \in SegmentIds, ok \in BOOLEAN : SpeechReply(g, ok)
    \/ \E g \in SegmentIds, ok \in BOOLEAN : DecodeReply(g, ok)
    \/ \E g \in SegmentIds : PlaybackEnded(g)

SpecAudio == Init /\ [][NextAudio]_vars

(***************************************************************************)
(* The BrollCard component: the still preview and the lens switcher.       *)
(***************************************************************************)
PreviewFailed == "Failed to generate preview."

\* the image generateBrollPreview resolves to for a lens
PreviewOf(lens) == <<"data:image/png;base64", lens>>

\* handleGeneratePreview(lens) up to its await
StartPreview(lens) ==
    /\ isGeneratingImage' = TRUE
    /\ cardError' = Absent
    /\ pendingPreviews' = [pendingPreviews EXCEPT ![lens] = @ + 1]
    /\ previewsStarted' = previewsStarted + 1

\* the card is mounted with the preview url of its result; the effect
\* generates the main image when there is none
MountCard(url) ==
    /\ ~cardMounted
    /\ cardMounted' = TRUE
    /\ previewUrl' = url
    /\ IF url = Absent
       THEN StartPreview(currentLens)
       ELSE UNCHANGED <<isGeneratingImage, cardError, pendingPreviews, previewsStarted>>
    /\ UNCHANGED <<currentLens, previewsFailed, serviceVars, appVars, audioVars>>

\* the "Generate Frame" button, shown when there is no preview and none is
\* being generated
GenerateFrameClicked ==
    /\ cardMounted
    /\ previewUrl = Absent /\ ~isGeneratingImage
    /\ previewsStarted < MaxPreviews
    /\ StartPreview(currentLens)
    /\ UNCHANGED <<cardMounted, currentLens, previewUrl, previewsFailed,
                   serviceVars, appVars, audioVars>>

\* a lens button of the viewfinder, shown over an existing preview
HandleLensChange(lens) ==
    /\ cardMounted
    /\ previewUrl # Absent
    /\ previewsStarted < MaxPreviews
    /\ currentLens' = lens
    /\ StartPreview(lens)
    /\ UNCHANGED <<cardMounted, previewUrl, previewsFailed, serviceVars, appVars, audioVars>>

\* generateBrollPreview of a request for lens fulfils: setPreviewUrl and the
\* finally block
PreviewReturns(lens) ==
    /\ pendingPreviews[lens] > 0
    /\ pendingPreviews' = [pendingPreviews EXCEPT ![lens] = @ - 1]
    /\ previewUrl' = Some(PreviewOf(lens))
    /\ isGeneratingImage' = FALSE
    /\ UNCHANGED <<cardMounted, currentLens, cardError, previewsStarted, previewsFailed,
                   serviceVars, appVars, audioVars>>

\* generateBrollPreview of a request for lens rejects: the catch block and
\* the finally block
PreviewRaises(lens) ==
    /\ pendingPreviews[lens] > 0
    /\ pendingPreviews' = [pendingPreviews EXCEPT ![lens] = @ - 1]
    /\ cardError' = Some(PreviewFailed)
    /\ isGeneratingImage' = FALSE
    /\ previewsFailed' = previewsFailed + 1
    /\ UNCHANGED <<cardMounted, currentLens, previewUrl, previewsStarted,
                   serviceVars, appVars, audioVars>>

NextCard ==
    \/ \E url \in {Absent, Some(ImageOf(1))} : MountCard(url)
    \/ GenerateFrameClicked
    \/ \E lens \in Lenses : HandleLensChange(lens)
    \/ \E lens \in Lenses : PreviewReturns(lens)
    \/ \E lens \in Lenses : PreviewRaises(lens)

SpecCard == Init /\ [][NextCard]_vars

(***************************************************************************)
(* generateBrollVideo alone, with every call it awaits settling in the end *)
(***************************************************************************)
\* an awaited call of generateBrollVideo settles
VideoReplies ==
    \/ \E selected \in BOOLEAN : HasKeyReply(selected)
    \/ SelectKeyReply
    \/ \E o \in VideoOperations : SubmitReply(o)
    \/ WaitElapsed
    \/ \E o \in VideoOperations : CheckReply(o)
    \/ FetchReply
    \/ BlobReply
    \/ \E e \in BackendErrors : VideoAwaitRejects(e)
    \/ \E e \in {Absent} \cup {Some(x) : x \in BackendErrors} : CatchSelectKeyReply(e)

NextVideo ==
    \/ \E present \in BOOLEAN : CallVideo(present)
    \/ VideoReplies

SpecVideoFair == Init /\ [][NextVideo]_vars /\ WF_vars(VideoReplies)

Next ==
    \/ \E q \in Queries : CallSearch(q)
    \/ \E ok \in BOOLEAN : SettleSearch(ok)
    \/ \E r \in AnalysisReplies : SettleAnalysis(r)
    \/ \E k \in Variations, outcome \in ImageOutcomes : SettleImage(k, outcome)
    \/ \E present \in BOOLEAN : CallVideo(present)
    \/ \E selected \in BOOLEAN : HasKeyReply(selected)
    \/ SelectKeyReply
    \/ \E o \in VideoOperations : SubmitReply(o)
    \/ WaitElapsed
    \/ \E o \in VideoOperations : CheckReply(o)
    \/ FetchReply
    \/ BlobReply
    \/ \E e \in BackendErrors : VideoAwaitRejects(e)
    \/ \E e \in {Absent} \cup {Some(x) : x \in BackendErrors} : CatchSelectKeyReply(e)
    \/ \E o \in {"shotList", "script", "scout"} : CallSimple(o)
    \/ \E ok \in BOOLEAN, r \in JsonReplies : ShotListReply(ok, r)
    \/ \E ok \in BOOLEAN, r \in JsonReplies : ScriptReply(ok, r)
    \/ \E ok \in BOOLEAN, c \in SeqsUpTo(ScoutChunks, MaxChunks) : ScoutReply(ok, c)

Spec == Init /\ [][Next]_vars

(***************************************************************************)
(* Properties                                                              *)
(***************************************************************************)
\* no two entries of the list a have the same url
NoDuplicateUrls(a) == \A i, j \in 1..Len(a) : a[i].url = a[j].url => i = j

\* searchBrollResources has returned an aggregate
SearchReturned == op = "search" /\ pc = "returned"

\* C1: in every result searchBrollResources returns, no two entries of
\* sources have the same url and no two entries of foundClips have the same
\* url, whatever grounding chunks the backend returned.
C1_NoDuplicateUris ==
    SearchReturned =>
        /\ NoDuplicateUrls(returned[1].sources)
        /\ returned[1].foundClips # Absent => NoDuplicateUrls(returned[1].foundClips[1])

\* a result was returned for a reply in which two web chunks share a URI
C1_Witness ==
    /\ SearchReturned
    /\ \E i, j \in 1..Len(searchResponse.chunks) :
          /\ i < j
          /\ searchResponse.chunks[i].kind = "web"
          /\ searchResponse.chunks[j].kind = "web"
          /\ searchResponse.chunks[i].uri = searchResponse.chunks[j].uri
    /\ returned[1].foundClips # Absent

\* C2: when the structured-analysis sub-call raised, replied with empty text
\* or replied with text that does not parse, the returned result has all five
\* structured fields absent.
C2_AnalysisFailureLeavesAllFieldsAbsent ==
    (SearchReturned /\ analysisHow \in {"raised", "empty", "unparsable"}) =>
        /\ returned[1].vibe = Absent
        /\ returned[1].techSpecs = Absent
        /\ returned[1].cameraSettings = Absent
        /\ returned[1].lightingDiagram = Absent
        /\ returned[1].audio = Absent

\* a result was returned although the analysis reply did not parse
C2_Witness == SearchReturned /\ analysisHow = "unparsable"

\* C3: the summary of every returned result is the text of the grounded-search
\* reply when that text is present and not empty, and the fixed string
\* "No summary available." otherwise; it is never undefined.
C3_SummaryNeverUndefined ==
    SearchReturned =>
        /\ returned[1].summary # Undefined
        /\ IF searchResponse.text \in {Undefined, ""}
           THEN returned[1].summary = "No summary available."
           ELSE returned[1].summary = searchResponse.text

\* a result was returned for a reply without text
C3_Witness == SearchReturned /\ searchResponse.text = Undefined

\* C4: the poll loop of generateBrollVideo performs one status check per wait;
\* while it polls every status seen so far was "not done", and it leaves the
\* loop for the media locator only on a status that reports done, after
\* exactly one more check than the number of "not done" checks.
C4_PollerChecksUntilDone ==
    op = "video" =>
        /\ pc \in {"wait", "check"} =>
              ~operation.done /\ checks = notDone /\ waits = checks + 1
        /\ pc \in {"fetch", "blob", "returned"} =>
              /\ operation.done
              /\ waits = checks
              /\ checks > 0 => checks = notDone + 1

\* not done twice, then done: three status checks and a returned reference
C4_Witness ==
    op = "video" /\ pc = "returned" /\ notDone = 2 /\ checks = 3 /\ waits = 3

\* the catch block of generateBrollVideo has received an error whose message
\* contains "Requested entity was not found", raised after the submission
CaughtNotFound ==
    /\ op = "video"
    /\ submitted
    /\ caught # Absent
    /\ Includes(caught[1].message, NotFoundText)

\* C5 as stated: whenever the submission or a status check raises an error
\* whose message contains "Requested entity was not found", generateBrollVideo
\* raises "Please select a billing project and try again." and not the
\* generic message.
C5_NotFoundAlwaysPromptsKeySelection ==
    (CaughtNotFound /\ pc = "raised") => raised[1] = DomainError(SelectBilling)

\* C5 amended: with window.aistudio present, such an error opens the
\* key-selection prompt, the generic message is never raised for it, and
\* the domain error raised is "Please select a billing project and try
\* again."; with window.aistudio absent the generic message is raised.
C5_NotFoundPromptsKeySelectionWhenHostAllows ==
    CaughtNotFound =>
        IF aistudio
        THEN /\ pc \in {"catchSelectKey", "raised"}
             /\ prompts >= 1
             /\ pc = "raised" =>
                   /\ raised[1] # DomainError(VideoFailed)
                   /\ raised[1].domain => raised[1] = DomainError(SelectBilling)
        ELSE pc = "raised" /\ raised[1] = DomainError(VideoFailed)

\* a status check raised the error and the billing message was surfaced
C5_Witness ==
    /\ CaughtNotFound
    /\ aistudio
    /\ notDone >= 1
    /\ checks = notDone + 1
    /\ pc = "raised"
    /\ raised[1] = DomainError(SelectBilling)

\* C6: when the grounded-search call has failed, searchBrollResources has
\* raised the fixed search error and returned no result, whatever the
\* other two sub-calls did.
C6_SearchFailureAborts ==
    (op = "search" /\ searchSt = "rejected") =>
        /\ pc = "raised"
        /\ returned = Absent
        /\ raised = Some(DomainError(SearchFailed))

\* the search failed although analysis and thumbnails both succeeded
C6_Witness ==
    /\ op = "search"
    /\ searchSt = "rejected"
    /\ analysisSt = "fulfilled" /\ analysisData.kind = "object"
    /\ thumbnailsSt = "fulfilled" /\ Len(thumbnails) = NumVariations

\* every web chunk carries a URI that new URL() accepts
WellFormed(chunks) ==
    \A i \in 1..Len(chunks) : chunks[i].kind = "web" => UrlParses(chunks[i].uri)

\* the analysis sub-call, resp. the thumbnail sub-call, failed
AnalysisFailed == analysisSt = "fulfilled" /\ analysisHow # "parsed"

ThumbnailsFailed == \E k \in Variations : imageSt[k] = "rejected"

\* C7: when the grounded search succeeded with well-formed citations, a
\* failure of the analysis sub-call, of the thumbnail sub-call or of both
\* does not make searchBrollResources raise, and the summary, sources and
\* directLinks returned are those of the run in which both succeeded.
C7_DegradableSubCalls ==
    (/\ op = "search"
     /\ pc \in {"returned", "raised"}
     /\ searchSt = "fulfilled"
     /\ WellFormed(searchResponse.chunks)
     /\ AnalysisFailed \/ ThumbnailsFailed) =>
        /\ pc = "returned"
        /\ LET good == Aggregate(query, searchResponse,
                                 AnalysisObject([f \in StructuredFields |-> "A"]),
                                 [k \in Variations |-> ImageOf(k)], 0)
           IN  /\ returned[1].summary = good.summary
               /\ returned[1].sources = good.sources
               /\ returned[1].directLinks = good.directLinks

\* both degradable sub-calls failed and a result with sources was returned
C7_Witness ==
    /\ SearchReturned
    /\ AnalysisFailed /\ ThumbnailsFailed
    /\ Len(returned[1].sources) = 2

\* C8 as stated: searchBrollResources raises only when the grounded-search
\* call failed; whenever that call succeeded a result is returned, whatever
\* the citation list contains.
C8_AbortsOnlyOnSearchFailure ==
    (op = "search" /\ pc = "raised") => searchSt = "rejected"

\* C9 as stated: searchBrollResources completes, by returning or by raising,
\* only after all three sub-calls have settled.
C9_CompletesOnlyAfterAllSettled ==
    (op = "search" /\ pc \in {"returned", "raised"}) =>
        /\ searchSt \in {"fulfilled", "rejected"}
        /\ analysisSt = "fulfilled"
        /\ thumbnailsSt = "fulfilled"

\* C9 amended: searchBrollResources returns a result only after all three
\* sub-calls have settled; it raises either once the grounded search has
\* failed, without waiting for the other two, or after all three settled.
C9_ReturnsOnlyAfterAllSettled ==
    op = "search" =>
        /\ pc = "returned" =>
              searchSt = "fulfilled" /\ analysisSt = "fulfilled" /\ thumbnailsSt = "fulfilled"
        /\ pc = "raised" =>
              \/ searchSt = "rejected"
              \/ (searchSt = "fulfilled" /\ analysisSt = "fulfilled"
                     /\ thumbnailsSt = "fulfilled")
        /\ searchSt = "rejected" => pc = "raised"

\* the search raised while the analysis and thumbnail calls were in flight
C9_Witness ==
    /\ op = "search"
    /\ pc = "raised"
    /\ analysisSt = "pending"
    /\ thumbnailsSt = "pending"

\* the fixed messages a top-level operation may raise
DomainMessages ==
    [search |-> {SearchFailed}, shotList |-> {ShotListFailed}, script |-> {ScriptFailed},
     scout |-> {ScoutFailed}, video |-> {VideoFailed, SelectBilling}]

\* C10 as stated: the error a caller receives from a top-level operation is
\* always one of that operation's fixed domain messages, also when the
\* failure happens inside the operation's own error handler.
C10_OnlyDomainErrorsEscape ==
    pc = "raised" =>
        /\ raised[1].domain
        /\ raised[1].message \in DomainMessages[op]

\* the position of the first web chunk of the list that carries uri
FirstWebChunk(chunks, uri) == CHOOSE j \in 1..Len(chunks) :
    /\ chunks[j].kind = "web" /\ chunks[j].uri = uri
    /\ \A k \in 1..(j - 1) : ~(chunks[k].kind = "web" /\ chunks[k].uri = uri)

\* the URIs of the web chunks of the list
WebUris(chunks) == {chunks[j].uri : j \in {k \in 1..Len(chunks) : chunks[k].kind = "web"}}

\* C11: the sources of a returned result are the web chunks of the reply
\* reduced to the first occurrence of each URI, with that occurrence's
\* title, in the order of the reply; every URI of a web chunk occurs in
\* sources and chunks that are not web chunks contribute nothing.
C11_SourcesAreFirstOccurrences ==
    SearchReturned =>
        LET chunks == searchResponse.chunks
            src == returned[1].sources
        IN  /\ {src[i].url : i \in 1..Len(src)} = WebUris(chunks)
            /\ Len(src) = Cardinality(WebUris(chunks))
            /\ \A i \in 1..Len(src) :
                  src[i].title = chunks[FirstWebChunk(chunks, src[i].url)].title
            /\ \A i, j \in 1..Len(src) :
                  i < j => FirstWebChunk(chunks, src[i].url) < FirstWebChunk(chunks, src[j].url)

\* a result for a reply in which a URI comes twice, under two titles
C11_Witness ==
    /\ SearchReturned
    /\ \E i, j \in 1..Len(searchResponse.chunks) :
          /\ i < j
          /\ searchResponse.chunks[i].kind = "web"
          /\ searchResponse.chunks[j].kind = "web"
          /\ searchResponse.chunks[i].uri = searchResponse.chunks[j].uri
          /\ searchResponse.chunks[i].title # searchResponse.chunks[j].title
    /\ Len(returned[1].sources) = 1

\* C12 as stated: every entry of the sources of a returned result carries a
\* URI; a web chunk without URI is kept at no position of the list.
C12_EverySourceCarriesUri ==
    SearchReturned =>
        \A i \in 1..Len(returned[1].sources) : returned[1].sources[i].url # Undefined

\* C13 as stated: every clip of a returned result has a thumbnail that is one
\* of the generated variation images, also when the thumbnail sub-call
\* degraded.
C13_EveryClipHasThumbnail ==
    (SearchReturned /\ returned[1].foundClips # Absent) =>
        \A i \in 1..Len(returned[1].foundClips[1]) :
            \E k \in Variations : returned[1].foundClips[1][i].thumbnail = ImageOf(k)

\* C13 amended: when the thumbnail sub-call delivered images, the clip at
\* index i (from 0) has image number i modulo the number of images, which is
\* one of the generated images; when it degraded to no images, every clip is
\* without thumbnail.
C13_ThumbnailByIndexUnlessDegraded ==
    (SearchReturned /\ returned[1].foundClips # Absent) =>
        \A i \in 1..Len(returned[1].foundClips[1]) :
            LET thumbnail == returned[1].foundClips[1][i].thumbnail
            IN  IF Len(thumbnails) > 0
                THEN /\ thumbnail = thumbnails[((i - 1) % Len(thumbnails)) + 1]
                     /\ \E k \in Variations : thumbnail = ImageOf(k)
                ELSE thumbnail = NoImage

\* four clips with the four generated images
C13_Witness ==
    /\ SearchReturned
    /\ returned[1].foundClips # Absent
    /\ Len(returned[1].foundClips[1]) = MaxClips
    /\ Len(thumbnails) = NumVariations

\* C14: foundClips has at most four entries, clip i has the url of source i
\* for every i up to the smaller of four and the number of sources, and
\* foundClips is absent when there are no sources.
C14_ClipsAreFirstFourSources ==
    SearchReturned =>
        LET src == returned[1].sources
            m == IF Len(src) < 4 THEN Len(src) ELSE 4
        IN  IF Len(src) = 0
            THEN returned[1].foundClips = Absent
            ELSE /\ returned[1].foundClips # Absent
                 /\ Len(returned[1].foundClips[1]) = m
                 /\ \A i \in 1..m : returned[1].foundClips[1][i].url = src[i].url

\* a result with more than four sources
C14_Witness == SearchReturned /\ Len(returned[1].sources) > 4

\* a status check of this invocation has raised: more replies were counted
\* than statuses received
CheckRaised == checks > notDone + (IF operation.done THEN 1 ELSE 0)

\* C15 as stated: once a status check has raised, the next thing the
\* invocation does is surface an error; nothing else comes in between.
C15_ErrorSurfacedAtOnce == CheckRaised => pc = "raised"

\* C15 amended: once a status check has raised, the invocation performs no
\* further status check, wait, media fetch or reference creation; it has
\* raised, or it awaits the key-selection prompt of the catch block and
\* raises as its next step.
C15_NoPollingAfterCheckRaised ==
    /\ [](CheckRaised => (pc \in {"catchSelectKey", "raised"} /\ returned = Absent))
    /\ [][CheckRaised =>
             /\ checks' = checks /\ waits' = waits /\ fetches' = fetches
             /\ returned' = Absent
             /\ pc' = "raised"]_vars

\* the third status check raised and the error reached the caller
C15_Witness == CheckRaised /\ notDone = 2 /\ checks = 3 /\ pc = "raised"

\* C16: the poll loop has no bound on attempts: while it polls the invocation
\* has neither returned nor raised, every wait is followed by a status check
\* and every status that reports "not done" by another wait, however many
\* checks there have been.
C16_PollLoopHasNoAttemptBound ==
    /\ []((op = "video" /\ pc \in {"wait", "check"}) =>
             (returned = Absent /\ raised = Absent /\ waits = notDone + 1))
    /\ [][(pc = "wait") => (pc' = "check")]_vars
    /\ [][(pc = "check" /\ notDone' = notDone + 1) =>
             (pc' = "wait" /\ waits' = waits + 1 /\ checks' = checks + 1)]_vars

\* as many "not done" statuses as the model allows, and still polling
C16_Witness == op = "video" /\ pc = "wait" /\ notDone = MaxPolls /\ checks = MaxPolls

\* C17: across the invocations of searchBrollResources of a session, in
\* whatever order they are called and settle, the id of every returned result
\* is an identifier the generator handed out during the continuation that
\* built the result, and no two returned results share an id.
C17_ResultIdsFreshAndDistinct ==
    /\ [](\A i, j \in 1..Len(results) : i # j => results[i].id # results[j].id)
    /\ [][Len(results') > Len(results) =>
             /\ results'[1].id > nextId
             /\ results'[1].id <= nextId']_vars

\* two invocations with the same query and the same reply of the backend
\* have returned
C17_Witness ==
    /\ Len(results) >= 2
    /\ results[1].query = results[2].query
    /\ results[1].sources = results[2].sources
    /\ Len(results[1].sources) > 0

\* C18: the directLinks of every returned result are the four platforms
\* Pexels, Pixabay, YouTube, Pond5 in that order with the access types free,
\* free, social, paid, and two results for the same query have identical
\* directLinks, whatever the backend replied to either invocation.
C18_DirectLinksFixedAndRepeatable ==
    \A i \in 1..Len(results) :
        LET d == results[i].directLinks
        IN  /\ Len(d) = 4
            /\ [k \in 1..4 |-> d[k].platform] = <<"Pexels", "Pixabay", "YouTube", "Pond5">>
            /\ [k \in 1..4 |-> d[k].type] = <<"free", "free", "social", "paid">>
            /\ \A j \in 1..Len(results) :
                  results[j].query = results[i].query => results[j].directLinks = d

\* two invocations with the same query whose backend replies differed in
\* sources, analysis and thumbnails have returned
C18_Witness ==
    /\ Len(results) >= 2
    /\ results[1].query = results[2].query
    /\ Len(results[1].sources) # Len(results[2].sources)
    /\ results[1].vibe # results[2].vibe
    /\ results[1].generatedPreviewUrl # results[2].generatedPreviewUrl

\* the analysis reply parsed to an object that carries all five fields
FullPayload ==
    /\ analysisHow = "parsed"
    /\ analysisData.kind = "object"
    /\ DOMAIN analysisData.fields = StructuredFields

\* the search reply consists of two web citations that share one URI
TwoCitationsOneUri ==
    /\ Len(searchResponse.chunks) = 2
    /\ \A i \in 1..2 : searchResponse.chunks[i].kind = "web"
    /\ searchResponse.chunks[1].uri = searchResponse.chunks[2].uri

\* C19: when the analysis reply parsed, each of the five structured fields of
\* the returned result is the payload's field of that name, and absent when
\* the payload has none; a reply of two citations sharing one URI with a
\* payload carrying all five fields gives exactly one source and all five
\* fields populated.
C19_ParsedFieldsCopiedUnchanged ==
    (SearchReturned /\ analysisHow = "parsed") =>
        /\ \A f \in StructuredFields :
              returned[1][f] =
                  IF analysisData.kind = "object" /\ f \in DOMAIN analysisData.fields
                  THEN <<analysisData.fields[f]>> ELSE <<>>
        /\ (FullPayload /\ TwoCitationsOneUri) =>
              /\ Len(returned[1].sources) = 1
              /\ \A f \in StructuredFields : returned[1][f] # Absent

\* the scenario: two citations with one URI and a full payload of "B"s
C19_Witness ==
    /\ SearchReturned
    /\ FullPayload /\ TwoCitationsOneUri
    /\ returned[1].audio = Some("B")

\* C20 as stated: in a returned result the image of every image-synthesis
\* call that succeeded is among the thumbnails the result is built from, and
\* the main preview is an image when the first call succeeded, also when
\* another image-synthesis call failed.
C20_SucceedingImagesKept ==
    SearchReturned =>
        \A k \in Variations :
            imageSt[k] = "fulfilled" =>
                /\ \E i \in 1..Len(thumbnails) : thumbnails[i] = ImageOf(k)
                /\ k = 1 => returned[1].generatedPreviewUrl = ImageOf(1)

\* C21: generateBrollVideo returns only at the end of the chain submitted,
\* status done, media locator present, fetch completed, reference created
\* from the blob, each stage entered from the one before; what it returns is
\* the local reference and not the backend's locator.
C21_ReturnsLocalReferenceAfterFullChain ==
    /\ []((op = "video" /\ returned # Absent) =>
            /\ pc = "returned"
            /\ returned = Some(ObjectUrl) /\ returned[1] # VideoUri
            /\ submitted /\ operation.done /\ operation.uri /\ fetches = 1)
    /\ []((op = "video" /\ pc \in {"wait", "check", "fetch", "blob"}) => submitted)
    /\ [][(op = "video" /\ returned' # returned) => pc = "blob"]_vars
    /\ [][(op = "video" /\ pc' = "blob" /\ pc # "blob") => pc = "fetch"]_vars
    /\ [][(op = "video" /\ pc' = "fetch" /\ pc # "fetch") =>
             /\ pc \in {"submit", "check"}
             /\ operation'.done /\ operation'.uri
             /\ fetches = 0 /\ fetches' = 1]_vars

\* a reference was returned after two statuses that reported "not done"
C21_Witness == op = "video" /\ pc = "returned" /\ returned # Absent /\ notDone = 2

\* the backend call of generateShotList or analyzeScript succeeded with
\* missing or empty text
EmptyAnswer == jsonReply.ok /\ jsonReply.text \in {"missing", "empty"}

\* the backend call raised, or its text is not the text of a JSON list
FailedAnswer ==
    \/ ~jsonReply.ok
    \/ jsonReply.text = "garbage"
    \/ jsonReply.text = "json" /\ ~jsonReply.value.isArray

\* C22 as stated: generateShotList and analyzeScript return an empty list
\* without raising when the backend call succeeded with empty text; they
\* return nothing and raise their fixed error when the call raised or its
\* text does not parse as the expected list; analyzeScript returns one
\* segment per parsed item, in order.
C22_EmptyAnswerIsNotFailure ==
    (op \in {"shotList", "script"} /\ pc \in {"returned", "raised"}) =>
        /\ EmptyAnswer =>
              /\ pc = "returned" /\ raised = Absent
              /\ returned = Some(IF op = "script" THEN <<>>
                                 ELSE [isArray |-> TRUE, items |-> <<>>])
        /\ FailedAnswer =>
              /\ pc = "raised" /\ returned = Absent
              /\ raised = Some(DomainError(IF op = "script" THEN ScriptFailed
                                            ELSE ShotListFailed))
        /\ (op = "script" /\ pc = "returned" /\ jsonReply.text = "json") =>
              /\ Len(returned[1]) = Len(jsonReply.value.items)
              /\ \A i \in 1..Len(returned[1]) :
                    returned[1][i].item = jsonReply.value.items[i]

\* C23: with window.aistudio present no video job is submitted while the key
\* check or the prompt is pending; the job is submitted in the step in which
\* the check reports a selected key, or, when it reported none, in the step
\* in which the key-selection prompt opened for it settles; when the check or
\* the prompt raises, no job is submitted at all.
C23_KeyCheckPrecedesSubmission ==
    /\ []((op = "video" /\ pc \in {"hasKey", "selectKey"}) => ~submitted)
    /\ []((op = "video" /\ pc = "selectKey") => (keySelected = "no" /\ prompts = 1))
    /\ [][(op' = "video" /\ aistudio' /\ ~submitted /\ submitted') =>
             \/ pc = "hasKey" /\ keySelected' = "yes" /\ prompts' = 0
             \/ pc = "selectKey" /\ keySelected' = "no" /\ prompts' = 1]_vars
    /\ [][(op = "video" /\ pc \in {"hasKey", "selectKey"}
                /\ pc' \in {"raised", "catchSelectKey"}) => ~submitted']_vars
    /\ [][(op = "video" /\ pc \in {"raised", "catchSelectKey"}) =>
             submitted' = submitted]_vars

\* no key was selected, the prompt was opened once, then the job went out
C23_Witness ==
    /\ op = "video" /\ aistudio
    /\ keySelected = "no" /\ prompts = 1
    /\ submitted /\ pc = "wait"

\* C24: when the video operation reports done and carries no media locator,
\* generateBrollVideo has issued no media fetch, has returned nothing and has
\* raised the generic error "Failed to generate motion preview.".
C24_DoneWithoutLocatorRaises ==
    (op = "video" /\ operation.done /\ ~operation.uri) =>
        /\ fetches = 0
        /\ returned = Absent
        /\ pc = "raised"
        /\ raised = Some(DomainError("Failed to generate motion preview."))

\* a status check delivered an operation that is done and has no locator
C24_Witness ==
    /\ op = "video" /\ operation.done /\ ~operation.uri
    /\ checks = 2 /\ pc = "raised"

\* generateBrollVideo has returned the reference or raised one of its two
\* fixed errors
VideoEndedAsDocumented ==
    \/ pc = "returned" /\ returned = Some(ObjectUrl)
    \/ pc = "raised" /\ raised \in {Some(DomainError(VideoFailed)),
                                    Some(DomainError(SelectBilling))}

\* C25 as stated: when no status check raises and the backend reports done in
\* the end, every invocation of generateBrollVideo eventually returns a
\* reference or raises a fixed error.
C25_EventuallyReturnsOrRaisesFixedError ==
    [](~CheckRaised) => ((op = "video") ~> VideoEndedAsDocumented)

\* the part of C25 that does hold: under the same assumptions every
\* invocation eventually returns or raises, and no wait or status check
\* follows a status that reported done
VideoTerminates ==
    /\ [](~CheckRaised) => ((op = "video") ~> (pc \in {"returned", "raised"}))
    /\ [][(op = "video" /\ operation.done) => (waits' = waits /\ checks' = checks)]_vars

\* C26: generateBrollVariations never raises; what it resolves to is the
\* empty list or the four images in the order of its four prompts, in
\* whatever order the image calls settled; so the thumbnails of
\* searchBrollResources number 0 or 4 and generatedPreviewUrl is absent or
\* the image of the first prompt.
C26_VariationsEmptyOrAllFourInPromptOrder ==
    /\ op = "search" =>
          /\ thumbnailsSt # "rejected"
          /\ Len(thumbnails) \in {0, 4}
          /\ thumbnails \in {<<>>, <<ImageOf(1), ImageOf(2), ImageOf(3), ImageOf(4)>>}
    /\ SearchReturned =>
          /\ returned[1].generatedPreviewUrl \in {NoImage, ImageOf(1)}
          /\ returned[1].generatedPreviewUrl = NoImage <=> thumbnails = <<>>

\* all four image calls fulfilled and the result shows the first image
C26_Witness ==
    /\ SearchReturned
    /\ Len(thumbnails) = 4
    /\ returned[1].generatedPreviewUrl = ImageOf(1)

\* C27 as stated: isLoading is true in every state in which a request
\* started by handleSearch or handleScoutShot is still in flight.
C27_LoadingWhileAnyRequestInFlight ==
    (\E k \in Kinds : inFlight[k] > 0) => isLoading

\* C28 as stated: sceneData and scriptData are never both non-null.
C28_SceneAndScriptNeverBothShown ==
    ~(sceneData # Absent /\ scriptData # Absent)

\* the segments whose voiceover is being loaded or played
ActiveVoiceovers == {g \in SegmentIds : voiceover[g] # "none"}

\* C29: at most one voiceover is loading or playing at any time; while
\* loadingAudioId or playingId is set no further speech call is started; and
\* when no voiceover is loading or playing, after a playback has ended or a
\* step has failed, both loadingAudioId and playingId are null.
C29_OneVoiceoverAtATime ==
    /\ [](Cardinality(ActiveVoiceovers) <= 1)
    /\ [](\A g \in SegmentIds :
             /\ voiceover[g] \in {"speech", "decode"} =>
                   (loadingAudioId = Some(g) /\ playingId = Absent)
             /\ voiceover[g] = "playing" =>
                   (playingId = Some(g) /\ loadingAudioId = Absent))
    /\ [](ActiveVoiceovers = {} => (loadingAudioId = Absent /\ playingId = Absent))
    /\ [][(loadingAudioId # Absent \/ playingId # Absent) =>
             speechCalls' = speechCalls]_vars

\* one preview failed, one played to its end, and a third is playing
C29_Witness ==
    /\ failed = 1 /\ ended = 1
    /\ playingId = Some("segment-2")
    /\ speechCalls = 3

\* a preview request of the card is in flight
PreviewInFlight == \E l \in Lenses : pendingPreviews[l] > 0

\* C30 as stated: once all preview requests the card started have settled
\* successfully, previewUrl is the image generated for currentLens, in
\* whatever order overlapping requests completed; and isGeneratingImage is
\* true whenever a preview request is in flight.
C30_PreviewMatchesCurrentLens ==
    /\ (previewsStarted > 0 /\ ~PreviewInFlight /\ previewsFailed = 0) =>
          previewUrl = Some(PreviewOf(currentLens))
    /\ PreviewInFlight => isGeneratingImage

====
